---- MODULE Spec2Model ----
(***************************************************************************)
(* Shift lifecycle of staff-shift-tracker: the Shift model                 *)
(* (server/models/shift.js), the Notification model                        *)
(* (server/models/notification.js) and the employee handlers of            *)
(* server/controllers/shiftController.js.                                  *)
(*                                                                         *)
(* Time is the millisecond value of a JavaScript Date.  A duration "in     *)
(* minutes" is the real number ms / 60000; it is held here in fixed point  *)
(* with denominator MsPerMinute, so m minutes is the integer               *)
(* m * MsPerMinute and fractional minutes are kept, as in the code.        *)
(***************************************************************************)
EXTENDS Integers, Sequences, FiniteSets, TLC

VARIABLES
    shifts,         \* the Shift collection, in insertion order; _id = index
    notifications,  \* the Notification collection, in insertion order
    now,            \* the last value read from the system clock (ms)
    res,            \* the response sent by the last step, with the handler's name
    inflight,       \* startShift requests suspended at `await newShift.save()`
    pending         \* requests on a fetched shift suspended at `await shift.save()`

vars == <<shifts, notifications, now, res, inflight, pending>>

----------------------------------------------------------------------------
(* Bounds of the model *)

MaxShifts == 2      \* Shift documents ever created
MaxBreaks == 2      \* breaks ever started, over all shifts
MaxClock == 3       \* last clock reading (ms)
MaxClockSolo == 6   \* last clock reading (ms) with one employee
MaxInflight == 2    \* startShift requests in flight together
MaxShiftsAdmin == 1  \* Shift documents ever created where an administrator edits

(* Program constants *)

MsPerMinute == 60000  \* 1000 * 60
LunchMax == 60
ShortMax == 15

(* Input domains *)

Users == {"u1", "u2"}
SoloUsers == {"u1"}
Locations == {"L1"}
BreakTypes == {"lunch", "short"}
RequestTypes == BreakTypes \cup {"nap"}
NoteTexts == {"", "n1"}
Deltas == {1}                  \* clock advance between two requests
IntraDeltas == {0, 1}          \* clock advance between two `new Date()` of one handler
NoId == 0                      \* a request without an id
Slots == 1..MaxInflight

----------------------------------------------------------------------------
(* Data model: server/models/shift.js *)

Null == [timestamp |-> -1, location |-> "null"]

TimestampLocation(t, loc) == [timestamp |-> t, location |-> loc]

NewBreak(breakType, t, loc) ==
    [type |-> breakType, startTime |-> TimestampLocation(t, loc),
     endTime |-> Null, duration |-> 0]

NewShift(u, d, t, loc) ==
    [userId |-> u, date |-> d, shiftStatus |-> "active",
     startTime |-> TimestampLocation(t, loc), breaks |-> <<>>,
     endTime |-> Null, totalWorkDuration |-> 0, totalBreakDuration |-> 0,
     notes |-> ""]

MsToMinutes(ms) == ms

(* Mutant: the elapsed time is taken from the end to the start. *)
calculateWorkDuration_Reversed(s) ==
    IF s.endTime = Null THEN 0
    ELSE MsToMinutes(s.startTime.timestamp - s.endTime.timestamp)
            - s.totalBreakDuration

(* Mutant: the break time is not subtracted. *)
calculateWorkDuration_RawOnly(s) ==
    IF s.endTime = Null THEN 0
    ELSE MsToMinutes(s.endTime.timestamp - s.startTime.timestamp)

calculateWorkDuration(s) ==
    IF s.endTime = Null THEN 0
    ELSE MsToMinutes(s.endTime.timestamp - s.startTime.timestamp)
            - s.totalBreakDuration

(* Mutant: the new break replaces the breaks taken so far. *)
Shift_startBreak_Replaces(s, breakType, t, loc) ==
    [s EXCEPT !.breaks = <<NewBreak(breakType, t, loc)>>,
              !.shiftStatus = "break"]

Shift_startBreak(s, breakType, t, loc) ==
    [s EXCEPT !.breaks = Append(@, NewBreak(breakType, t, loc)),
              !.shiftStatus = "break"]

Shift_endBreakOk(s) ==
    /\ Len(s.breaks) # 0
    /\ s.breaks[Len(s.breaks)].endTime = Null

(* Mutant: the break is closed without an endTime. *)
Shift_endBreak_NoEndTime(s, t, loc) ==
    IF ~Shift_endBreakOk(s) THEN s
    ELSE LET n == Len(s.breaks)
             dur == MsToMinutes(t - s.breaks[n].startTime.timestamp)
         IN [s EXCEPT !.breaks[n].duration = dur,
                      !.totalBreakDuration = @ + dur,
                      !.shiftStatus = "active"]

(* Mutant: the total is overwritten by the last duration instead of added to. *)
Shift_endBreak_Overwrite(s, t, loc) ==
    IF ~Shift_endBreakOk(s) THEN s
    ELSE LET n == Len(s.breaks)
             dur == MsToMinutes(t - s.breaks[n].startTime.timestamp)
         IN [s EXCEPT !.breaks[n].endTime = TimestampLocation(t, loc),
                      !.breaks[n].duration = dur,
                      !.totalBreakDuration = dur,
                      !.shiftStatus = "active"]

Shift_endBreak(s, t, loc) ==
    IF ~Shift_endBreakOk(s) THEN s
    ELSE LET n == Len(s.breaks)
             dur == MsToMinutes(t - s.breaks[n].startTime.timestamp)
         IN [s EXCEPT !.breaks[n].endTime = TimestampLocation(t, loc),
                      !.breaks[n].duration = dur,
                      !.totalBreakDuration = @ + dur,
                      !.shiftStatus = "active"]

(* Mutant: the shift's endTime is the earlier clock reading and the open   *)
(* break is closed at the later one. *)
Shift_endShift_EndTimeFirst(s, t1, t2, loc) ==
    LET b == IF s.shiftStatus = "break" THEN Shift_endBreak(s, t2, loc) ELSE s
        e == [b EXCEPT !.endTime = TimestampLocation(t1, loc)]
    IN [e EXCEPT !.totalWorkDuration = calculateWorkDuration(e),
                 !.shiftStatus = "completed"]

(* Mutant: the work duration is computed before the open break is closed. *)
Shift_endShift_WorkFirst(s, t1, t2, loc) ==
    LET e == [s EXCEPT !.endTime = TimestampLocation(t2, loc),
                       !.totalWorkDuration =
                           MsToMinutes(t2 - s.startTime.timestamp)
                             - s.totalBreakDuration]
        b == IF s.shiftStatus = "break" THEN Shift_endBreak(e, t1, loc) ELSE e
    IN [b EXCEPT !.shiftStatus = "completed"]

(* Mutant: the status is left as it was after the break is closed. *)
Shift_endShift_KeepsStatus(s, t1, t2, loc) ==
    LET b == IF s.shiftStatus = "break" THEN Shift_endBreak(s, t1, loc) ELSE s
        e == [b EXCEPT !.endTime = TimestampLocation(t2, loc)]
    IN [e EXCEPT !.totalWorkDuration = calculateWorkDuration(e)]

Shift_endShift(s, t1, t2, loc) ==
    LET b == IF s.shiftStatus = "break" THEN Shift_endBreak(s, t1, loc) ELSE s
        e == [b EXCEPT !.endTime = TimestampLocation(t2, loc)]
    IN [e EXCEPT !.totalWorkDuration = calculateWorkDuration(e),
                 !.shiftStatus = "completed"]

----------------------------------------------------------------------------
(* Data model: server/models/notification.js *)

ShiftCompleteNotification(u, s) ==
    [userId |-> u, type |-> "shift_completed", breakType |-> "",
     exceededBy |-> 0, work |-> s.totalWorkDuration,
     break |-> s.totalBreakDuration]

BreakExceededNotification(u, breakType, exceededBy) ==
    [userId |-> u, type |-> "break_exceeded", breakType |-> breakType,
     exceededBy |-> exceededBy, work |-> 0, break |-> 0]

----------------------------------------------------------------------------
(* Queries and responses *)

Min(S) == CHOOSE x \in S : \A y \in S : x <= y

(* Mutant: the query leaves the owner out. *)
Matching_AnyUser(coll, u, id, statuses) ==
    {i \in 1..Len(coll) : /\ id = NoId \/ i = id
                          /\ coll[i].shiftStatus \in statuses}

Matching(coll, u, id, statuses) ==
    {i \in 1..Len(coll) : /\ id = NoId \/ i = id
                          /\ coll[i].userId = u
                          /\ coll[i].shiftStatus \in statuses}

(* Mutant: the query asks for 'active' where it should also ask for 'break'. *)
findOne_ActiveOnly(coll, u, id, statuses) ==
    IF Matching(coll, u, id, statuses \ {"break"}) = {} THEN 0
    ELSE Min(Matching(coll, u, id, statuses \ {"break"}))

(* Mutant: the query leaves the status out. *)
findOne_AnyStatus(coll, u, id, statuses) ==
    IF Matching(coll, u, id, {"active", "break", "completed"}) = {} THEN 0
    ELSE Min(Matching(coll, u, id, {"active", "break", "completed"}))

findOne(coll, u, id, statuses) ==
    IF Matching(coll, u, id, statuses) = {} THEN 0
    ELSE Min(Matching(coll, u, id, statuses))

RECURSIVE BreakCount(_)
BreakCount(coll) ==
    IF coll = <<>> THEN 0
    ELSE Len(coll[1].breaks) + BreakCount(Tail(coll))

Response(op, status, msg) == [op |-> op, status |-> status, msg |-> msg]

ServerError(op) == Response(op, 500, "Server error")

(* Mutant: the fraction of a minute is dropped. *)
MathRound_Floor(x) == x \div MsPerMinute

MathRound(x) == (2 * x + MsPerMinute) \div (2 * MsPerMinute)

----------------------------------------------------------------------------
(* Initial state: empty collections, no request handled yet *)

Idle == NewShift("", -1, -1, "null")

NoRequest == [op |-> "none", id |-> NoId, fetched |-> Idle, doc |-> Idle]

Init ==
    /\ shifts = <<>>
    /\ notifications = <<>>
    /\ now = 0
    /\ res = Response("none", 0, "")
    /\ inflight = [r \in Slots |-> Idle]
    /\ pending = [r \in Slots |-> NoRequest]

----------------------------------------------------------------------------------------------------------------------------------------
(* Employee handlers: server/controllers/shiftController.js.               *)
(* The inputs of a request are drawn where the handler reads them: d in D  *)
(* is the time elapsed since the previous clock reading (a reading is      *)
(* strictly later than the one before it, and a request whose save fails   *)
(* has read the clock too), e the time between the two readings of one     *)
(* handler, ok / nok whether the save / the notification insert succeeds.  *)
(* Request ids are well-formed ObjectIds.                                  *)

StartShift(u, D) ==
    LET found == findOne(shifts, u, NoId, {"active", "break"})
    IN /\ UNCHANGED <<notifications, inflight, pending>>
       /\ \/ /\ res' = Response("startShift", 400, "errors")
             /\ UNCHANGED <<shifts, now>>
          \/ /\ found # 0
             /\ res' = Response("startShift", 400, "You already have an active shift")
             /\ UNCHANGED <<shifts, now>>
          \/ /\ found = 0
             /\ Len(shifts) < MaxShifts
             /\ \E d \in D, loc \in Locations, ok \in BOOLEAN :
                  /\ now' = now + d
                  /\ IF ok
                       THEN /\ shifts' = Append(shifts,
                                            NewShift(u, now + d, now + d, loc))
                            /\ res' = Response("startShift", 201, "Shift started successfully")
                       ELSE /\ res' = ServerError("startShift")
                            /\ UNCHANGED shifts

(* Mutant: the shift is looked up before the break type is validated. *)
StartBreak_FindFirst(u, id, breakType, D) ==
    LET i == findOne(shifts, u, id, {"active"})
    IN /\ UNCHANGED <<notifications, inflight, pending>>
       /\ IF i = 0
            THEN /\ res' = Response("startBreak", 404, "Active shift not found")
                 /\ UNCHANGED <<shifts, now>>
            ELSE IF breakType \notin BreakTypes
            THEN /\ res' = Response("startBreak", 400, "Invalid break type")
                 /\ UNCHANGED <<shifts, now>>
            ELSE /\ BreakCount(shifts) < MaxBreaks
                 /\ \E d \in D, loc \in Locations, ok \in BOOLEAN :
                      /\ now' = now + d
                      /\ IF ok
                           THEN /\ shifts' = [shifts EXCEPT ![i] =
                                      Shift_startBreak(@, breakType, now + d, loc)]
                                /\ res' = Response("startBreak", 200,
                                                   "break started successfully")
                           ELSE /\ res' = ServerError("startBreak")
                                /\ UNCHANGED shifts

StartBreak(u, id, breakType, D) ==
    LET i == findOne(shifts, u, id, {"active"})
    IN /\ UNCHANGED <<notifications, inflight, pending>>
       /\ IF breakType \notin BreakTypes
            THEN /\ res' = Response("startBreak", 400, "Invalid break type")
                 /\ UNCHANGED <<shifts, now>>
            ELSE IF i = 0
            THEN /\ res' = Response("startBreak", 404, "Active shift not found")
                 /\ UNCHANGED <<shifts, now>>
            ELSE /\ BreakCount(shifts) < MaxBreaks
                 /\ \E d \in D, loc \in Locations, ok \in BOOLEAN :
                      /\ now' = now + d
                      /\ IF ok
                           THEN /\ shifts' = [shifts EXCEPT ![i] =
                                      Shift_startBreak(@, breakType, now + d, loc)]
                                /\ res' = Response("startBreak", 200,
                                                   "break started successfully")
                           ELSE /\ res' = ServerError("startBreak")
                                /\ UNCHANGED shifts

(* Mutant: the two maxima are swapped. *)
MaxDuration_Swapped(breakType) == IF breakType = "lunch" THEN ShortMax ELSE LunchMax

MaxDuration(breakType) == IF breakType = "lunch" THEN LunchMax ELSE ShortMax

(* Mutant: a failed save leaves the closed break behind. *)
EndBreak_PartialOnFailure(u, id, D) ==
    LET i == findOne(shifts, u, id, {"break"})
    IN /\ UNCHANGED <<inflight, pending>>
       /\ IF i = 0
            THEN /\ res' = Response("endBreak", 404, "Shift on break not found")
                 /\ UNCHANGED <<shifts, notifications, now>>
            ELSE IF ~Shift_endBreakOk(shifts[i])
            THEN /\ res' = Response("endBreak", 400, "No active break found")
                 /\ UNCHANGED <<shifts, notifications, now>>
            ELSE \E d \in D, loc \in Locations, ok \in BOOLEAN :
                   LET s == Shift_endBreak(shifts[i], now + d, loc)
                       updatedBreak == s.breaks[Len(s.breaks)]
                       over == updatedBreak.duration
                                 - MaxDuration(updatedBreak.type) * MsPerMinute
                   IN /\ now' = now + d
                      /\ IF ~ok
                           THEN /\ res' = ServerError("endBreak")
                                /\ shifts' = [shifts EXCEPT ![i].breaks = s.breaks]
                                /\ UNCHANGED notifications
                           ELSE /\ shifts' = [shifts EXCEPT ![i] = s]
                                /\ IF over > 0
                                     THEN \E nok \in BOOLEAN :
                                            IF nok
                                              THEN /\ notifications' =
                                                        Append(notifications,
                                                          BreakExceededNotification(u,
                                                            updatedBreak.type,
                                                            MathRound(over)))
                                                   /\ res' = Response("endBreak", 200,
                                                               "Break ended successfully")
                                              ELSE /\ res' = ServerError("endBreak")
                                                   /\ UNCHANGED notifications
                                     ELSE /\ res' = Response("endBreak", 200,
                                                             "Break ended successfully")
                                          /\ UNCHANGED notifications

EndBreak(u, id, D) ==
    LET i == findOne(shifts, u, id, {"break"})
    IN /\ UNCHANGED <<inflight, pending>>
       /\ IF i = 0
            THEN /\ res' = Response("endBreak", 404, "Shift on break not found")
                 /\ UNCHANGED <<shifts, notifications, now>>
            ELSE IF ~Shift_endBreakOk(shifts[i])
            THEN /\ res' = Response("endBreak", 400, "No active break found")
                 /\ UNCHANGED <<shifts, notifications, now>>
            ELSE \E d \in D, loc \in Locations, ok \in BOOLEAN :
                   LET s == Shift_endBreak(shifts[i], now + d, loc)
                       updatedBreak == s.breaks[Len(s.breaks)]
                       over == updatedBreak.duration
                                 - MaxDuration(updatedBreak.type) * MsPerMinute
                   IN /\ now' = now + d
                      /\ IF ~ok
                           THEN /\ res' = ServerError("endBreak")
                                /\ UNCHANGED <<shifts, notifications>>
                           ELSE /\ shifts' = [shifts EXCEPT ![i] = s]
                                /\ IF over > 0
                                     THEN \E nok \in BOOLEAN :
                                            IF nok
                                              THEN /\ notifications' =
                                                        Append(notifications,
                                                          BreakExceededNotification(u,
                                                            updatedBreak.type,
                                                            MathRound(over)))
                                                   /\ res' = Response("endBreak", 200,
                                                               "Break ended successfully")
                                              ELSE /\ res' = ServerError("endBreak")
                                                   /\ UNCHANGED notifications
                                     ELSE /\ res' = Response("endBreak", 200,
                                                             "Break ended successfully")
                                          /\ UNCHANGED notifications

EndShift(u, id, D) ==
    LET i == findOne(shifts, u, id, {"active", "break"})
    IN /\ UNCHANGED <<inflight, pending>>
       /\ IF i = 0
            THEN /\ res' = Response("endShift", 404, "Active shift not found")
                 /\ UNCHANGED <<shifts, notifications, now>>
            ELSE \E d \in D, loc \in Locations, notes \in NoteTexts,
                    e \in IF shifts[i].shiftStatus = "break" THEN IntraDeltas ELSE {0},
                    ok \in BOOLEAN :
                   LET ended == Shift_endShift(shifts[i], now + d, now + d + e, loc)
                       s == IF notes # "" THEN [ended EXCEPT !.notes = notes]
                            ELSE ended
                   IN /\ now' = now + d + e
                      /\ IF ~ok
                           THEN /\ res' = ServerError("endShift")
                                /\ UNCHANGED <<shifts, notifications>>
                           ELSE /\ shifts' = [shifts EXCEPT ![i] = s]
                                /\ \E nok \in BOOLEAN :
                                     IF nok
                                       THEN /\ notifications' = Append(notifications,
                                                   ShiftCompleteNotification(u, s))
                                            /\ res' = Response("endShift", 200,
                                                        "Shift ended successfully")
                                       ELSE /\ res' = ServerError("endShift")
                                            /\ UNCHANGED notifications

UpdateShiftNotes(u, id) ==
    LET i == findOne(shifts, u, id, {"active", "break", "completed"})
    IN /\ UNCHANGED <<notifications, now, inflight, pending>>
       /\ IF i = 0
            THEN /\ res' = Response("updateShiftNotes", 404, "Shift not found")
                 /\ UNCHANGED shifts
            ELSE \E notes \in NoteTexts, ok \in BOOLEAN :
                   IF ok
                     THEN /\ shifts' = [shifts EXCEPT ![i].notes = notes]
                          /\ res' = Response("updateShiftNotes", 200,
                                             "Shift notes updated successfully")
                     ELSE /\ res' = ServerError("updateShiftNotes")
                          /\ UNCHANGED shifts

----------------------------------------------------------------------------
(* updateShift: PUT /api/shifts/:id, by the owner or an administrator.     *)
(* A field of the body is either absent or given: an absent time is        *)
(* Absent, absent notes are Undefined, and breaks carry a flag.            *)

Admins == {"a1"}

Actors == Users \cup Admins

Role(actor) == IF actor \in Admins THEN "admin" ELSE "user"

Absent == Null.timestamp

Undefined == "undefined"

AdminTimes == {Absent, 2}

ClosedBreak(breakType, t1, t2, loc) ==
    [NewBreak(breakType, t1, loc) EXCEPT !.endTime = TimestampLocation(t2, loc),
                                         !.duration = MsToMinutes(t2 - t1)]

BreakLists ==
    {<<ClosedBreak("short", 1, 2, "L1")>>,
     <<NewBreak("lunch", 1, "L1"), ClosedBreak("short", 2, 3, "L1")>>}

BreaksInputs ==
    {[given |-> FALSE, list |-> <<>>]}
        \cup {[given |-> TRUE, list |-> l] : l \in BreakLists}

(* A removed document leaves its id behind: ids are never used again *)
Removed == [Idle EXCEPT !.shiftStatus = "removed"]

findById(coll, id) ==
    IF id \in 1..Len(coll) /\ coll[id] # Removed THEN id ELSE 0

(* Mutant: the time fields and the breaks are applied for any requester. *)
UpdateShift_NoRoleCheck(actor, id) ==
    /\ UNCHANGED <<notifications, now, inflight, pending>>
    /\ IF findById(shifts, id) = 0
         THEN /\ res' = Response("updateShift", 404, "Shift not found")
              /\ UNCHANGED shifts
         ELSE IF shifts[id].userId # actor /\ Role(actor) # "admin"
         THEN /\ res' = Response("updateShift", 403,
                                 "Not authorized to update this shift")
              /\ UNCHANGED shifts
         ELSE \E notes \in NoteTexts \cup {Undefined},
                 startTime \in AdminTimes, endTime \in AdminTimes,
                 breaks \in BreaksInputs, ok \in BOOLEAN :
                LET s0 == shifts[id]
                    s1 == IF notes # Undefined THEN [s0 EXCEPT !.notes = notes]
                          ELSE s0
                    s2 == IF startTime # Absent
                            THEN [s1 EXCEPT !.startTime.timestamp = startTime]
                            ELSE s1
                    s3 == IF endTime # Absent
                            THEN [s2 EXCEPT !.endTime = TimestampLocation(endTime,
                                     IF s2.endTime # Null THEN s2.endTime.location
                                     ELSE s2.startTime.location)]
                            ELSE s2
                    s4 == IF endTime # Absent /\ s3.endTime = Null
                            THEN [s3 EXCEPT !.shiftStatus = "completed"]
                            ELSE s3
                    s5 == IF breaks.given THEN [s4 EXCEPT !.breaks = breaks.list]
                          ELSE s4
                    s == s5
                IN IF ok
                     THEN /\ shifts' = [shifts EXCEPT ![id] = s]
                          /\ res' = Response("updateShift", 200,
                                             "Shift updated successfully")
                     ELSE /\ res' = ServerError("updateShift")
                          /\ UNCHANGED shifts

UpdateShift(actor, id) ==
    /\ UNCHANGED <<notifications, now, inflight, pending>>
    /\ IF findById(shifts, id) = 0
         THEN /\ res' = Response("updateShift", 404, "Shift not found")
              /\ UNCHANGED shifts
         ELSE IF shifts[id].userId # actor /\ Role(actor) # "admin"
         THEN /\ res' = Response("updateShift", 403,
                                 "Not authorized to update this shift")
              /\ UNCHANGED shifts
         ELSE \E notes \in NoteTexts \cup {Undefined},
                 startTime \in AdminTimes, endTime \in AdminTimes,
                 breaks \in BreaksInputs, ok \in BOOLEAN :
                LET s0 == shifts[id]
                    s1 == IF notes # Undefined THEN [s0 EXCEPT !.notes = notes]
                          ELSE s0
                    s2 == IF startTime # Absent
                            THEN [s1 EXCEPT !.startTime.timestamp = startTime]
                            ELSE s1
                    s3 == IF endTime # Absent
                            THEN [s2 EXCEPT !.endTime = TimestampLocation(endTime,
                                     IF s2.endTime # Null THEN s2.endTime.location
                                     ELSE s2.startTime.location)]
                            ELSE s2
                    s4 == IF endTime # Absent /\ s3.endTime = Null
                            THEN [s3 EXCEPT !.shiftStatus = "completed"]
                            ELSE s3
                    s5 == IF breaks.given THEN [s4 EXCEPT !.breaks = breaks.list]
                          ELSE s4
                    s == IF Role(actor) = "admin" THEN s5 ELSE s1
                IN IF ok
                     THEN /\ shifts' = [shifts EXCEPT ![id] = s]
                          /\ res' = Response("updateShift", 200,
                                             "Shift updated successfully")
                     ELSE /\ res' = ServerError("updateShift")
                          /\ UNCHANGED shifts

(* deleteShift: DELETE /api/shifts/:id *)

(* Mutant: the role of the requester is not looked at. *)
DeleteShift_NoRoleCheck(actor, id) ==
    /\ UNCHANGED <<notifications, now, inflight, pending>>
    /\ IF findById(shifts, id) = 0
         THEN /\ res' = Response("deleteShift", 404, "Shift not found")
              /\ UNCHANGED shifts
         ELSE \E ok \in BOOLEAN :
                IF ok
                  THEN /\ shifts' = [shifts EXCEPT ![id] = Removed]
                       /\ res' = Response("deleteShift", 200,
                                          "Shift deleted successfully")
                  ELSE /\ res' = ServerError("deleteShift")
                       /\ UNCHANGED shifts

DeleteShift(actor, id) ==
    /\ UNCHANGED <<notifications, now, inflight, pending>>
    /\ IF Role(actor) # "admin"
         THEN /\ res' = Response("deleteShift", 403,
                                 "Not authorized to delete shifts")
              /\ UNCHANGED shifts
         ELSE IF findById(shifts, id) = 0
         THEN /\ res' = Response("deleteShift", 404, "Shift not found")
              /\ UNCHANGED shifts
         ELSE \E ok \in BOOLEAN :
                IF ok
                  THEN /\ shifts' = [shifts EXCEPT ![id] = Removed]
                       /\ res' = Response("deleteShift", 200,
                                          "Shift deleted successfully")
                  ELSE /\ res' = ServerError("deleteShift")
                       /\ UNCHANGED shifts

----------------------------------------------------------------------------
(* getDashboardData: GET /api/users/dashboard                              *)
(* (server/controllers/userController.js).                                 *)
(* A JavaScript number is a value or NaN.  `new Date(x)` of a Date is that *)
(* time; of a {timestamp, location} subdocument, which is what startTime   *)
(* and endTime of a shift and of a break are, it is the Invalid Date,      *)
(* whose time value is NaN: the subdocument is converted to a string that  *)
(* is not a date.  Arithmetic on NaN gives NaN.                            *)

NaN == [nan |-> TRUE, val |-> 0]

Num(n) == [nan |-> FALSE, val |-> n]

DateOfTime(t) == Num(t)

DateOfSubdocument(tl) == NaN

Minus(a, b) == IF a.nan \/ b.nan THEN NaN ELSE Num(a.val - b.val)

MathFloorMinutes(x) == IF x.nan THEN NaN ELSE Num(x.val \div MsPerMinute)

Dashboard(id, currentStatus, currentShiftDuration, currentBreakDuration) ==
    [op |-> "getDashboardData", status |-> 200, msg |-> "", id |-> id,
     currentStatus |-> currentStatus,
     currentDuration |-> currentShiftDuration,
     currentBreakDuration |-> currentBreakDuration]

GetDashboardData(u, D) ==
    /\ UNCHANGED <<shifts, notifications, inflight, pending>>
    /\ \E d \in D :
         LET i == findOne(shifts, u, NoId, {"active", "break"})
             activeShift == shifts[i]
             n == Len(activeShift.breaks)
             shiftStartTime == DateOfSubdocument(activeShift.startTime)
             hasLastBreakEndTime == n > 0 /\ activeShift.breaks[n].endTime # Null
             lastBreakEndTime == DateOfSubdocument(activeShift.breaks[n].endTime)
             breakStartTime == DateOfSubdocument(activeShift.breaks[n].startTime)
             startPoint == IF hasLastBreakEndTime THEN lastBreakEndTime
                           ELSE shiftStartTime
         IN /\ now' = now + d
            /\ res' =
                 IF i = 0
                   THEN Dashboard(NoId, "not_working", Num(0), Num(0))
                 ELSE IF activeShift.shiftStatus = "break" /\ n > 0
                   THEN Dashboard(i, "break",
                          MathFloorMinutes(Minus(breakStartTime, shiftStartTime)),
                          MathFloorMinutes(Minus(DateOfTime(now + d), breakStartTime)))
                 ELSE Dashboard(i, activeShift.shiftStatus,
                          MathFloorMinutes(Minus(DateOfTime(now + d), startPoint)),
                          Num(0))

----------------------------------------------------------------------------
(* getCurrentShift: GET /api/shifts/current.  The response carries the     *)
(* stored document, or active = false and no shift.                        *)

CurrentShift(coll, u) ==
    LET i == findOne(coll, u, NoId, {"active", "break"})
    IN IF i = 0
         THEN [op |-> "getCurrentShift", status |-> 200, msg |-> "",
               active |-> FALSE]
         ELSE [op |-> "getCurrentShift", status |-> 200, msg |-> "",
               active |-> TRUE, id |-> i, shift |-> coll[i]]

(* Mutant: the read puts a shift on break back to work. *)
GetCurrentShift_Resumes(u) ==
    LET i == findOne(shifts, u, NoId, {"active", "break"})
    IN /\ UNCHANGED <<notifications, now, inflight, pending>>
       /\ res' = CurrentShift(shifts, u)
       /\ shifts' = IF i = 0 THEN shifts
                    ELSE [shifts EXCEPT ![i].shiftStatus = "active"]

GetCurrentShift(u) ==
    /\ UNCHANGED <<shifts, notifications, now, inflight, pending>>
    /\ res' = CurrentShift(shifts, u)

----------------------------------------------------------------------------
(* Statistics: GET /api/shifts/stats/daily, /weekly and /monthly.          *)
(* Time 0 is 00:00 on Thursday 1 January 1970 and the server's time zone   *)
(* is UTC.  Every handler drops the time of day of the date it is asked    *)
(* about, so a request names a calendar day, counted from 1 January 1970;  *)
(* a window is a range of days, both ends included ($gte on 00:00:00.000   *)
(* of the first, $lte on 23:59:59.999 of the last).  totalHours is in      *)
(* hundredths of an hour, as toFixed(2) leaves it; from and to are the     *)
(* days the response names (date; weekStart, weekEnd; month and year).     *)

MsPerDay == 86400000

DayOf(t) == t \div MsPerDay

getDay(day) == (day + 4) % 7        \* 0 = Sunday

JanuaryDays == 31

getMonth(day) == IF day < JanuaryDays THEN 0 ELSE 1    \* of 1970, to February

startOfMonth(day) == IF getMonth(day) = 0 THEN 0 ELSE JanuaryDays

endOfMonth(day) == IF getMonth(day) = 0 THEN JanuaryDays - 1 ELSE JanuaryDays + 27

(* The ISO week of a day of 1970 from 1 January on: the week of the        *)
(* Thursday nearest to it. *)
getWeekNumber(t) ==
    LET d == DayOf(t)
        thursday == d + 4 - (IF getDay(d) = 0 THEN 7 ELSE getDay(d))
    IN (thursday + 7) \div 7

(* Mutant: the query leaves the status out. *)
find_AnyStatus(coll, u, lo, hi, statuses) ==
    {i \in 1..Len(coll) : /\ coll[i].userId = u
                          /\ lo <= DayOf(coll[i].date)
                          /\ DayOf(coll[i].date) <= hi}

find(coll, u, lo, hi, statuses) ==
    {i \in 1..Len(coll) : /\ coll[i].userId = u
                          /\ lo <= DayOf(coll[i].date)
                          /\ DayOf(coll[i].date) <= hi
                          /\ coll[i].shiftStatus \in statuses}

RECURSIVE Sum(_, _)
Sum(f, S) ==
    IF S = {} THEN 0
    ELSE LET x == CHOOSE y \in S : TRUE IN f[x] + Sum(f, S \ {x})

shiftDuration(s) ==
    IF s.endTime # Null THEN s.endTime.timestamp - s.startTime.timestamp ELSE 0

RECURSIVE breakDuration(_)
breakDuration(breaks) ==
    IF breaks = <<>> THEN 0
    ELSE (IF Head(breaks).endTime # Null
            THEN Head(breaks).endTime.timestamp - Head(breaks).startTime.timestamp
            ELSE 0) + breakDuration(Tail(breaks))

toFixed2Hours(ms) == (2 * ms + 36000) \div 72000

totalHours(coll, S) ==
    toFixed2Hours(Sum([i \in S |-> shiftDuration(coll[i])], S))

totalBreakMinutes(coll, S) ==
    MathRound(Sum([i \in S |-> breakDuration(coll[i].breaks)], S))

Counted(coll, S) == {i \in S : coll[i].endTime # Null}

Bucket(coll, S) ==
    [totalHours |-> totalHours(coll, Counted(coll, S)),
     totalBreakMinutes |-> totalBreakMinutes(coll, S),
     shiftsCount |-> Cardinality(Counted(coll, S))]

Stats(op, lo, hi, coll, S, buckets) ==
    [op |-> op, status |-> 200, msg |-> "", from |-> lo, to |-> hi,
     totalShifts |-> Cardinality(S),
     totalHours |-> totalHours(coll, S),
     totalBreakMinutes |-> totalBreakMinutes(coll, S),
     shifts |-> S, buckets |-> buckets]

GetDailyStats(u, day) ==
    LET found == find(shifts, u, day, day, {"completed"})
    IN /\ UNCHANGED <<shifts, notifications, now, inflight, pending>>
       /\ res' = Stats("getDailyStats", day, day, shifts, found, <<>>)

GetWeeklyStats(u, day) ==
    LET startDate == day - getDay(day)
        endDate == startDate + 6
        found == find(shifts, u, startDate, endDate, {"completed"})
        dailyStats == [dayIndex \in 0..6 |->
            Bucket(shifts, {i \in found : getDay(DayOf(shifts[i].date)) = dayIndex})]
    IN /\ UNCHANGED <<shifts, notifications, now, inflight, pending>>
       /\ res' = Stats("getWeeklyStats", startDate, endDate, shifts, found,
                      dailyStats)

GetMonthlyStats(u, day) ==
    LET found == find(shifts, u, startOfMonth(day), endOfMonth(day), {"completed"})
        weeks == {getWeekNumber(shifts[i].date) : i \in Counted(shifts, found)}
        weeklyStats == [weekNumber \in weeks |->
            Bucket(shifts, {i \in found : getWeekNumber(shifts[i].date) = weekNumber})]
    IN /\ UNCHANGED <<shifts, notifications, now, inflight, pending>>
       /\ res' = Stats("getMonthlyStats", startOfMonth(day), endOfMonth(day),
                      shifts, found, weeklyStats)

--------------------------------------------------------------------------------------------------------------------------------------------
(* Requests handled one at a time *)

Ids == 1..MaxShifts     \* well-formed ObjectIds, of a stored shift or of none

Within(max) == now' <= max

(* Two employees *)
Next ==
    \/ \E u \in Users : StartShift(u, Deltas) /\ Within(MaxClock)
    \/ \E u \in Users, id \in Ids, breakType \in RequestTypes :
            StartBreak(u, id, breakType, Deltas) /\ Within(MaxClock)
    \/ \E u \in Users, id \in Ids : EndBreak(u, id, Deltas) /\ Within(MaxClock)
    \/ \E u \in Users, id \in Ids : EndShift(u, id, Deltas) /\ Within(MaxClock)
    \/ \E u \in Users, id \in Ids : UpdateShiftNotes(u, id)

Spec == Init /\ [][Next]_vars

(* One employee, over a longer time *)
NextSolo ==
    \/ \E u \in SoloUsers : StartShift(u, Deltas) /\ Within(MaxClockSolo)
    \/ \E u \in SoloUsers, id \in Ids, breakType \in RequestTypes :
            StartBreak(u, id, breakType, Deltas) /\ Within(MaxClockSolo)
    \/ \E u \in SoloUsers, id \in Ids : EndBreak(u, id, Deltas) /\ Within(MaxClockSolo)
    \/ \E u \in SoloUsers, id \in Ids : EndShift(u, id, Deltas) /\ Within(MaxClockSolo)
    \/ \E u \in SoloUsers, id \in Ids : UpdateShiftNotes(u, id)

SpecSolo == Init /\ [][NextSolo]_vars

(* One employee on a day whose requests arrive 0, 120, 185 and 480 minutes *)
(* after the first one                                                     *)
DayStart == MsPerMinute

DayTimes == {DayStart + m * MsPerMinute : m \in {0, 120, 185, 480}}

DayDeltas == {a - now : a \in {x \in DayTimes : x > now}}

NextDay ==
    \/ \E u \in SoloUsers : StartShift(u, DayDeltas)
    \/ \E u \in SoloUsers, id \in Ids, breakType \in RequestTypes :
            StartBreak(u, id, breakType, DayDeltas)
    \/ \E u \in SoloUsers, id \in Ids : EndBreak(u, id, DayDeltas)
    \/ \E u \in SoloUsers, id \in Ids : EndShift(u, id, DayDeltas)
    \/ \E u \in SoloUsers, id \in Ids : UpdateShiftNotes(u, id)

SpecDay == Init /\ [][NextDay]_vars

(* One employee who starts work, takes a break 110 minutes later and      *)
(* looks at the dashboard; requests arrive 0, 110 and 120 minutes after    *)
(* the first one                                                           *)
LiveTimes == {DayStart + m * MsPerMinute : m \in {0, 110, 120}}

LiveDeltas == {a - now : a \in {x \in LiveTimes : x > now}}

NextLive ==
    \/ \E u \in SoloUsers : StartShift(u, LiveDeltas)
    \/ \E u \in SoloUsers, id \in Ids, breakType \in RequestTypes :
            StartBreak(u, id, breakType, LiveDeltas)
    \/ \E u \in SoloUsers, id \in Ids : EndBreak(u, id, LiveDeltas)
    \/ \E u \in SoloUsers, id \in Ids : EndShift(u, id, LiveDeltas)
    \/ \E u \in SoloUsers : GetDashboardData(u, LiveDeltas)

SpecLive == Init /\ [][NextLive]_vars

(* One employee whose requests arrive 0, 15, 75, 75.4, 75.5 and 91 minutes *)
(* after the first one, so that breaks last exactly their maximum, a       *)
(* fraction of a minute more, or whole minutes more                        *)
BreakTimes ==
    {DayStart + m * MsPerMinute : m \in {0, 15, 75, 91}}
        \cup {DayStart + 75 * MsPerMinute + ms : ms \in {24000, 30000}}

BreakDeltas == {a - now : a \in {x \in BreakTimes : x > now}}

NextBreaks ==
    \/ \E u \in SoloUsers : StartShift(u, BreakDeltas)
    \/ \E u \in SoloUsers, id \in Ids, breakType \in RequestTypes :
            StartBreak(u, id, breakType, BreakDeltas)
    \/ \E u \in SoloUsers, id \in Ids : EndBreak(u, id, BreakDeltas)
    \/ \E u \in SoloUsers, id \in Ids : EndShift(u, id, BreakDeltas)

SpecBreaks == Init /\ [][NextBreaks]_vars

(* One employee and an administrator *)
NextAdmin ==
    \/ \E u \in SoloUsers :
            StartShift(u, Deltas) /\ Within(MaxClock) /\ Len(shifts') <= MaxShiftsAdmin
    \/ \E u \in SoloUsers, id \in Ids, breakType \in RequestTypes :
            StartBreak(u, id, breakType, Deltas) /\ Within(MaxClock)
    \/ \E u \in SoloUsers, id \in Ids : EndBreak(u, id, Deltas) /\ Within(MaxClock)
    \/ \E u \in SoloUsers, id \in Ids : EndShift(u, id, Deltas) /\ Within(MaxClock)
    \/ \E actor \in Actors, id \in Ids : UpdateShift(actor, id)

SpecAdmin == Init /\ [][NextAdmin]_vars

(* One employee, a colleague and an administrator who may delete shifts *)
NextDelete ==
    \/ \E u \in SoloUsers : StartShift(u, Deltas) /\ Within(MaxClock)
    \/ \E u \in SoloUsers, id \in Ids, breakType \in RequestTypes :
            StartBreak(u, id, breakType, Deltas) /\ Within(MaxClock)
    \/ \E u \in SoloUsers, id \in Ids : EndBreak(u, id, Deltas) /\ Within(MaxClock)
    \/ \E u \in SoloUsers, id \in Ids : EndShift(u, id, Deltas) /\ Within(MaxClock)
    \/ \E u \in SoloUsers, id \in Ids : UpdateShiftNotes(u, id)
    \/ \E u \in Users, id \in Ids : UpdateShift(u, id)
    \/ \E u \in SoloUsers : GetCurrentShift(u)
    \/ \E actor \in Actors, id \in Ids : DeleteShift(actor, id)

SpecDelete == Init /\ [][NextDelete]_vars

(* One employee whose started shift is always allowed to finish: past the  *)
(* last clock reading no work begins and no request fails, but an endShift *)
(* that completes a shift is still handled; an endShift that is saved is   *)
(* not postponed for ever                                                  *)
EndShiftCompletes(u, id) ==
    /\ EndShift(u, id, Deltas)
    /\ id \in 1..Len(shifts)
    /\ shifts'[id].shiftStatus = "completed"

NextFinish ==
    \/ \E u \in SoloUsers : StartShift(u, Deltas) /\ Within(MaxClock)
    \/ \E u \in SoloUsers, id \in Ids, breakType \in RequestTypes :
            StartBreak(u, id, breakType, Deltas) /\ Within(MaxClock)
    \/ \E u \in SoloUsers, id \in Ids : EndBreak(u, id, Deltas) /\ Within(MaxClock)
    \/ \E u \in SoloUsers, id \in Ids :
            EndShift(u, id, Deltas) /\ (shifts' = shifts => Within(MaxClock))

SpecFinish ==
    /\ Init
    /\ [][NextFinish]_vars
    /\ \A u \in SoloUsers, id \in Ids : WF_vars(EndShiftCompletes(u, id))

(* Two employees over a weekend: requests arrive at 9:00, 12:00 and 12:30 *)
(* on Saturday 3 January 1970 and at 9:00 on Sunday 4 January, the first   *)
(* day of the next week; statistics are asked about either day, about a    *)
(* day of February, or about today                                         *)
StatsTimes ==
    {2 * MsPerDay + m * MsPerMinute : m \in {540, 720, 750}}
        \cup {3 * MsPerDay + m * MsPerMinute : m \in {540}}

StatsDeltas == {a - now : a \in {x \in StatsTimes : x > now}}

QueryDays == {2, 40}

NextStats ==
    \/ \E u \in Users : StartShift(u, StatsDeltas)
    \/ \E u \in Users, id \in Ids, breakType \in BreakTypes :
            StartBreak(u, id, breakType, StatsDeltas)
    \/ \E u \in Users, id \in Ids : EndBreak(u, id, StatsDeltas)
    \/ \E u \in Users, id \in Ids : EndShift(u, id, StatsDeltas)
    \/ \E u \in Users : GetCurrentShift(u)
    \/ \E u \in Users, day \in QueryDays \cup {DayOf(now)} : GetDailyStats(u, day)
    \/ \E u \in Users, day \in QueryDays \cup {DayOf(now)} : GetWeeklyStats(u, day)
    \/ \E u \in Users, day \in QueryDays \cup {DayOf(now)} : GetMonthlyStats(u, day)

SpecStats == Init /\ [][NextStats]_vars

----------------------------------------------------------------------------
(* startShift requests that overlap: the handler is suspended at           *)
(* `await Shift.findOne(...)` and at `await newShift.save()`, and another  *)
(* request may run in between.  The first step runs the query, the guard   *)
(* and the construction of the document; the second step inserts it.       *)

StartShiftFind(r, u, D) ==
    LET found == findOne(shifts, u, NoId, {"active", "break"})
    IN /\ inflight[r] = Idle
       /\ UNCHANGED <<shifts, notifications, pending>>
       /\ \/ /\ res' = Response("startShift", 400, "errors")
             /\ UNCHANGED <<now, inflight>>
          \/ /\ found # 0
             /\ res' = Response("startShift", 400, "You already have an active shift")
             /\ UNCHANGED <<now, inflight>>
          \/ /\ found = 0
             /\ \E d \in D, loc \in Locations :
                  /\ now' = now + d
                  /\ inflight' = [inflight EXCEPT ![r] =
                                     NewShift(u, now + d, now + d, loc)]
             /\ UNCHANGED res

StartShiftSave(r) ==
    /\ inflight[r] # Idle
    /\ Len(shifts) < MaxShifts
    /\ inflight' = [inflight EXCEPT ![r] = Idle]
    /\ UNCHANGED <<notifications, now, pending>>
    /\ \E ok \in BOOLEAN :
         IF ok
           THEN /\ shifts' = Append(shifts, inflight[r])
                /\ res' = Response("startShift", 201, "Shift started successfully")
           ELSE /\ res' = ServerError("startShift")
                /\ UNCHANGED shifts

NextRace ==
    \/ \E r \in Slots, u \in Users : StartShiftFind(r, u, Deltas) /\ Within(MaxClock)
    \/ \E r \in Slots : StartShiftSave(r)
    \/ \E u \in Users, id \in Ids, breakType \in RequestTypes :
            StartBreak(u, id, breakType, Deltas) /\ Within(MaxClock)
    \/ \E u \in Users, id \in Ids : EndBreak(u, id, Deltas) /\ Within(MaxClock)
    \/ \E u \in Users, id \in Ids : EndShift(u, id, Deltas) /\ Within(MaxClock)

SpecRace == Init /\ [][NextRace]_vars

----------------------------------------------------------------------------
(* startBreak, endBreak and endShift requests that overlap.  Each handler  *)
(* is suspended at `await Shift.findOne(...)` and at `await shift.save()`. *)
(* The first step runs the query, the guard and the mutation of the        *)
(* fetched document; the second step runs the save and what follows it.    *)
(* save() of a fetched document writes the paths the request modified and  *)
(* no others: a break pushed onto `breaks` is sent as a $push, a field of  *)
(* an existing break as a $set on its position, which is conditional on    *)
(* the array not having been pushed to since the document was fetched      *)
(* (the version key), and a top-level field as a $set of its new value.    *)

Modified(fetched, doc) ==
    {k \in 1..Len(fetched.breaks) : doc.breaks[k] # fetched.breaks[k]}

VersionConflict(stored, fetched, doc) ==
    /\ Modified(fetched, doc) # {}
    /\ Len(stored.breaks) # Len(fetched.breaks)

SaveModified(stored, fetched, doc) ==
    LET n == Len(fetched.breaks)
        pushed == SubSeq(doc.breaks, n + 1, Len(doc.breaks))
        positional == [k \in 1..Len(stored.breaks) |->
                          IF k \in Modified(fetched, doc)
                            THEN [stored.breaks[k] EXCEPT
                                    !.endTime = doc.breaks[k].endTime,
                                    !.duration = doc.breaks[k].duration]
                            ELSE stored.breaks[k]]
        set(old, before, after) == IF after # before THEN after ELSE old
    IN [stored EXCEPT
          !.breaks = positional \o pushed,
          !.shiftStatus = set(@, fetched.shiftStatus, doc.shiftStatus),
          !.endTime = set(@, fetched.endTime, doc.endTime),
          !.totalWorkDuration = set(@, fetched.totalWorkDuration, doc.totalWorkDuration),
          !.totalBreakDuration = set(@, fetched.totalBreakDuration, doc.totalBreakDuration),
          !.notes = set(@, fetched.notes, doc.notes)]

PendingPushes == Cardinality({r \in Slots : pending[r].op = "startBreak"})

Suspend(r, op, i, doc) ==
    /\ pending' = [pending EXCEPT ![r] =
                      [op |-> op, id |-> i, fetched |-> shifts[i], doc |-> doc]]
    /\ UNCHANGED <<shifts, notifications, res, inflight>>

StartBreakFind(r, u, id, breakType, D) ==
    LET i == findOne(shifts, u, id, {"active"})
    IN /\ pending[r] = NoRequest
       /\ IF breakType \notin BreakTypes
            THEN /\ res' = Response("startBreak", 400, "Invalid break type")
                 /\ UNCHANGED <<shifts, notifications, now, inflight, pending>>
            ELSE IF i = 0
            THEN /\ res' = Response("startBreak", 404, "Active shift not found")
                 /\ UNCHANGED <<shifts, notifications, now, inflight, pending>>
            ELSE /\ BreakCount(shifts) + PendingPushes < MaxBreaks
                 /\ \E d \in D, loc \in Locations :
                      /\ now' = now + d
                      /\ Suspend(r, "startBreak", i,
                                 Shift_startBreak(shifts[i], breakType, now + d, loc))

EndBreakFind(r, u, id, D) ==
    LET i == findOne(shifts, u, id, {"break"})
    IN /\ pending[r] = NoRequest
       /\ IF i = 0
            THEN /\ res' = Response("endBreak", 404, "Shift on break not found")
                 /\ UNCHANGED <<shifts, notifications, now, inflight, pending>>
            ELSE IF ~Shift_endBreakOk(shifts[i])
            THEN /\ res' = Response("endBreak", 400, "No active break found")
                 /\ UNCHANGED <<shifts, notifications, now, inflight, pending>>
            ELSE \E d \in D, loc \in Locations :
                   /\ now' = now + d
                   /\ Suspend(r, "endBreak", i, Shift_endBreak(shifts[i], now + d, loc))

EndShiftFind(r, u, id, D) ==
    LET i == findOne(shifts, u, id, {"active", "break"})
    IN /\ pending[r] = NoRequest
       /\ IF i = 0
            THEN /\ res' = Response("endShift", 404, "Active shift not found")
                 /\ UNCHANGED <<shifts, notifications, now, inflight, pending>>
            ELSE \E d \in D, loc \in Locations, notes \in NoteTexts,
                    e \in IF shifts[i].shiftStatus = "break" THEN IntraDeltas ELSE {0} :
                   LET ended == Shift_endShift(shifts[i], now + d, now + d + e, loc)
                   IN /\ now' = now + d + e
                      /\ Suspend(r, "endShift", i,
                                 IF notes # "" THEN [ended EXCEPT !.notes = notes]
                                 ELSE ended)

(* The save of request r, which fails if the store is not written to or  *)
(* rejects the write.                                                      *)
Saved(r, written) ==
    written /\ ~VersionConflict(shifts[pending[r].id], pending[r].fetched, pending[r].doc)

Save(r, written) ==
    LET p == pending[r]
    IN /\ pending' = [pending EXCEPT ![r] = NoRequest]
       /\ UNCHANGED <<now, inflight>>
       /\ IF Saved(r, written)
            THEN shifts' = [shifts EXCEPT ![p.id] = SaveModified(@, p.fetched, p.doc)]
            ELSE /\ res' = ServerError(p.op)
                 /\ UNCHANGED <<shifts, notifications>>

StartBreakSave(r) ==
    /\ pending[r].op = "startBreak"
    /\ \E ok \in BOOLEAN :
         /\ Save(r, ok)
         /\ Saved(r, ok) =>
               /\ res' = Response("startBreak", 200, "break started successfully")
               /\ UNCHANGED notifications

EndBreakSave(r) ==
    LET p == pending[r]
        updatedBreak == p.doc.breaks[Len(p.doc.breaks)]
        over == updatedBreak.duration - MaxDuration(updatedBreak.type) * MsPerMinute
    IN /\ p.op = "endBreak"
       /\ \E ok \in BOOLEAN, nok \in BOOLEAN :
            /\ Save(r, ok)
            /\ Saved(r, ok) =>
                  IF over > 0 /\ nok
                    THEN /\ notifications' = Append(notifications,
                                BreakExceededNotification(p.doc.userId,
                                    updatedBreak.type, MathRound(over)))
                         /\ res' = Response("endBreak", 200, "Break ended successfully")
                    ELSE /\ UNCHANGED notifications
                         /\ res' = IF over > 0 THEN ServerError("endBreak")
                                   ELSE Response("endBreak", 200,
                                                 "Break ended successfully")

EndShiftSave(r) ==
    LET p == pending[r]
    IN /\ p.op = "endShift"
       /\ \E ok \in BOOLEAN, nok \in BOOLEAN :
            /\ Save(r, ok)
            /\ Saved(r, ok) =>
                  IF nok
                    THEN /\ notifications' = Append(notifications,
                                ShiftCompleteNotification(p.doc.userId, p.doc))
                         /\ res' = Response("endShift", 200, "Shift ended successfully")
                    ELSE /\ UNCHANGED notifications
                         /\ res' = ServerError("endShift")

NextBreakRace ==
    \/ \E u \in SoloUsers : StartShift(u, Deltas) /\ Within(MaxClock)
    \/ \E r \in Slots, u \in SoloUsers, id \in Ids, breakType \in RequestTypes :
            StartBreakFind(r, u, id, breakType, Deltas) /\ Within(MaxClock)
    \/ \E r \in Slots : StartBreakSave(r)
    \/ \E r \in Slots, u \in SoloUsers, id \in Ids :
            EndBreakFind(r, u, id, Deltas) /\ Within(MaxClock)
    \/ \E r \in Slots : EndBreakSave(r)
    \/ \E r \in Slots, u \in SoloUsers, id \in Ids :
            EndShiftFind(r, u, id, Deltas) /\ Within(MaxClock)
    \/ \E r \in Slots : EndShiftSave(r)

SpecBreakRace == Init /\ [][NextBreakRace]_vars

----------------------------------------------------------------------------
(* Properties *)

ShiftIds == 1..Len(shifts)

OpenShiftsOf(u) ==
    {i \in ShiftIds : shifts[i].userId = u /\ shifts[i].shiftStatus \in {"active", "break"}}

RECURSIVE SumClosed(_)
SumClosed(breaks) ==
    IF breaks = <<>> THEN 0
    ELSE (IF breaks[1].endTime # Null THEN breaks[1].duration ELSE 0)
            + SumClosed(Tail(breaks))

Minutes(m) == m * MsPerMinute

DuplicateActiveShift == Response("startShift", 400, "You already have an active shift")

NoActiveShiftOnStartBreak == Response("startBreak", 404, "Active shift not found")

NoOpenBreak == Response("endBreak", 400, "No active break found")

(* C1: with requests handled one at a time, an employee never has more     *)
(* than one stored shift whose status is 'active' or 'break'.              *)
C1_AtMostOneOpenShift ==
    \A u \in Users : Cardinality(OpenShiftsOf(u)) <= 1

(* An employee has completed a shift and started the next one. *)
C1_Witness ==
    \E i, j \in ShiftIds :
        /\ shifts[i].userId = shifts[j].userId
        /\ shifts[i].shiftStatus = "completed"
        /\ shifts[j].shiftStatus \in {"active", "break"}

(* C2: startShift requests of one employee that overlap do not both create *)
(* a shift: once no request is in flight, the employee has at most one     *)
(* shift whose status is 'active' or 'break'.                              *)
C2_ConcurrentStartsExclusive ==
    (\A r \in Slots : inflight[r] = Idle)
        => \A u \in Users : Cardinality(OpenShiftsOf(u)) <= 1

(* C3: only the last break of a shift may lack an endTime, so a shift has  *)
(* at most one open break.                                                 *)
C3_OnlyLastBreakOpen ==
    \A i \in ShiftIds : \A k \in 1..Len(shifts[i].breaks) :
        shifts[i].breaks[k].endTime = Null => k = Len(shifts[i].breaks)

(* A shift with a closed break followed by an open one. *)
C3_Witness ==
    \E i \in ShiftIds :
        /\ Len(shifts[i].breaks) = 2
        /\ shifts[i].breaks[1].endTime # Null
        /\ shifts[i].breaks[2].endTime = Null

(* C4: the stored totalBreakDuration of a shift is the sum of the duration *)
(* of its breaks that have an endTime.                                     *)
C4_TotalBreakIsSumOfClosed ==
    \A i \in ShiftIds : shifts[i].totalBreakDuration = SumClosed(shifts[i].breaks)

(* A shift with two closed breaks of different durations. *)
C4_Witness ==
    \E i \in ShiftIds :
        /\ Len(shifts[i].breaks) = 2
        /\ shifts[i].breaks[1].endTime # Null
        /\ shifts[i].breaks[2].endTime # Null
        /\ shifts[i].breaks[1].duration # shifts[i].breaks[2].duration
        /\ shifts[i].totalBreakDuration > 0

(* C5: a shift has an endTime exactly when its status is 'completed'.      *)
C5_EndTimeIffCompleted ==
    \A i \in ShiftIds :
        (shifts[i].endTime # Null) <=> (shifts[i].shiftStatus = "completed")

(* A completed shift whose notes were updated afterwards, next to a shift  *)
(* on break.                                                               *)
C5_Witness ==
    /\ res = Response("updateShiftNotes", 200, "Shift notes updated successfully")
    /\ \E i, j \in ShiftIds :
            /\ shifts[i].shiftStatus = "completed"
            /\ shifts[i].endTime # Null
            /\ shifts[j].shiftStatus = "break"

(* C6: after a successful endShift the stored shift is 'completed', has an *)
(* endTime, and its totalWorkDuration is the minutes from startTime to     *)
(* endTime minus its totalBreakDuration.                                   *)
C6_EndShiftRoundTrip ==
    [][\A u \in Users, id \in Ids :
          (res' = Response("endShift", 200, "Shift ended successfully")
             /\ EndShift(u, id, Deltas))
            => /\ id \in ShiftIds
               /\ shifts[id].shiftStatus \in {"active", "break"}
               /\ shifts'[id].shiftStatus = "completed"
               /\ shifts'[id].endTime # Null
               /\ shifts'[id].endTime.timestamp = now'
               /\ shifts'[id].totalWorkDuration =
                     MsToMinutes(shifts'[id].endTime.timestamp
                                   - shifts'[id].startTime.timestamp)
                       - shifts'[id].totalBreakDuration]_vars

(* endShift has just completed a shift that was on break after an earlier  *)
(* closed break.                                                           *)
C6_Witness ==
    /\ res = Response("endShift", 200, "Shift ended successfully")
    /\ \E i \in ShiftIds :
            /\ shifts[i].endTime # Null
            /\ shifts[i].endTime.timestamp = now
            /\ Len(shifts[i].breaks) = 2
            /\ shifts[i].breaks[2].endTime.timestamp >= now - 1
            /\ shifts[i].totalBreakDuration > 0
            /\ shifts[i].totalWorkDuration > 0

(* C7: scenario A. startShift at T0 gives an 'active' shift with startTime *)
(* T0; startBreak('lunch') at T0+120 min gives 'break' with one open       *)
(* break; endBreak at T0+185 min gives 'active', a break duration and a    *)
(* totalBreakDuration of 65 and a break-exceeded notification for 5        *)
(* minutes; endShift at T0+480 min gives 'completed' with a                *)
(* totalWorkDuration of 415.                                               *)
ScenarioStart(u, id) ==
    /\ id \in ShiftIds
    /\ shifts[id].userId = u
    /\ shifts[id].startTime.timestamp = DayStart

ScenarioLunch(u, id) ==
    /\ ScenarioStart(u, id)
    /\ Len(shifts[id].breaks) = 1
    /\ shifts[id].breaks[1].type = "lunch"
    /\ shifts[id].breaks[1].startTime.timestamp = DayStart + Minutes(120)

C7_ScenarioA ==
    [][\A u \in SoloUsers, id \in Ids :
          /\ (res'.op = "startShift" /\ res'.status = 201 /\ now' = DayStart
                /\ StartShift(u, DayDeltas))
               => /\ shifts'[Len(shifts')].shiftStatus = "active"
                  /\ shifts'[Len(shifts')].startTime.timestamp = DayStart
          /\ (/\ res'.op = "startBreak" /\ res'.status = 200
              /\ ScenarioStart(u, id) /\ shifts[id].breaks = <<>>
              /\ now' = DayStart + Minutes(120)
              /\ StartBreak(u, id, "lunch", DayDeltas))
               => /\ shifts'[id].shiftStatus = "break"
                  /\ Len(shifts'[id].breaks) = 1
                  /\ shifts'[id].breaks[1].endTime = Null
          /\ (/\ res'.op = "endBreak" /\ res'.status = 200
              /\ ScenarioLunch(u, id)
              /\ now' = DayStart + Minutes(185)
              /\ EndBreak(u, id, DayDeltas))
               => /\ shifts'[id].shiftStatus = "active"
                  /\ shifts'[id].breaks[1].duration = Minutes(65)
                  /\ shifts'[id].totalBreakDuration = Minutes(65)
                  /\ notifications' = Append(notifications,
                        BreakExceededNotification(u, "lunch", 5))
          /\ (/\ res'.op = "endShift" /\ res'.status = 200
              /\ ScenarioLunch(u, id)
              /\ shifts[id].shiftStatus = "active"
              /\ shifts[id].breaks[1].endTime.timestamp = DayStart + Minutes(185)
              /\ now' = DayStart + Minutes(480)
              /\ EndShift(u, id, DayDeltas))
               => /\ shifts'[id].shiftStatus = "completed"
                  /\ shifts'[id].totalWorkDuration = Minutes(415)]_vars

(* The day of scenario A has been worked to its end. *)
C7_Witness ==
    /\ res = Response("endShift", 200, "Shift ended successfully")
    /\ now = DayStart + Minutes(480)
    /\ ScenarioLunch("u1", 1)
    /\ shifts[1].breaks[1].endTime.timestamp = DayStart + Minutes(185)
    /\ shifts[1].endTime.timestamp = DayStart + Minutes(480)
    /\ notifications # <<>>
    /\ notifications[1].exceededBy = 5

(* C8: a well-formed startShift request of an employee who has a shift in  *)
(* status 'active' or 'break' is rejected with 'You already have an active *)
(* shift', creates no shift and leaves the stored shifts unchanged.        *)
C8_DuplicateStartRejected ==
    [][\A u \in Users :
          (/\ res'.op = "startShift"
           /\ res'.msg # "errors"
           /\ OpenShiftsOf(u) # {}
           /\ StartShift(u, Deltas))
            => /\ res' = DuplicateActiveShift
               /\ shifts' = shifts]_vars

(* startShift has just been rejected for an employee whose shift is on     *)
(* break.                                                                  *)
C8_Witness ==
    /\ res = DuplicateActiveShift
    /\ \E i \in ShiftIds : shifts[i].shiftStatus = "break"

(* C9: startBreak with a valid break type that does not target an 'active' *)
(* shift of the requesting employee is rejected with 'Active shift not    *)
(* found', appends no break and changes no stored shift.                   *)
C9_StartBreakNeedsActiveShift ==
    [][\A u \in Users, id \in Ids, breakType \in BreakTypes :
          (/\ res'.op = "startBreak"
           /\ ~(/\ id \in ShiftIds
                /\ shifts[id].userId = u
                /\ shifts[id].shiftStatus = "active")
           /\ StartBreak(u, id, breakType, Deltas))
            => /\ res' = NoActiveShiftOnStartBreak
               /\ shifts' = shifts]_vars

(* startBreak has just been rejected while one employee's shift is on      *)
(* break and another employee's shift is active.                           *)
C9_Witness ==
    /\ res = NoActiveShiftOnStartBreak
    /\ \E i, j \in ShiftIds :
            /\ shifts[i].shiftStatus = "break"
            /\ shifts[j].shiftStatus = "active"
            /\ shifts[i].userId # shifts[j].userId

(* startBreak has just been rejected for an employee whose only shift is   *)
(* completed.                                                              *)
C9_WitnessCompleted ==
    /\ res = NoActiveShiftOnStartBreak
    /\ \A i \in ShiftIds : shifts[i].shiftStatus = "completed"
    /\ shifts # <<>>

(* C10: an endBreak request that directly follows a successful endBreak of *)
(* the same shift is rejected with 'No active break found' and leaves the  *)
(* stored shifts unchanged.                                                *)
C10_SecondEndBreakNoOpenBreak ==
    [][\A u \in Users, id \in Ids :
          (/\ res = Response("endBreak", 200, "Break ended successfully")
           /\ id \in ShiftIds
           /\ shifts[id].userId = u
           /\ shifts[id].breaks # <<>>
           /\ shifts[id].breaks[Len(shifts[id].breaks)].endTime.timestamp = now
           /\ EndBreak(u, id, Deltas))
            => /\ res' = NoOpenBreak
               /\ shifts' = shifts]_vars

InvalidBreakType == Response("startBreak", 400, "Invalid break type")

NoActiveShiftOnEndShift == Response("endShift", 404, "Active shift not found")

NoShiftOnBreak == Response("endBreak", 404, "Shift on break not found")

(* C11: startBreak with a break type other than 'lunch' and 'short' is     *)
(* rejected with 'Invalid break type' whatever shift it names and whatever *)
(* the state of that shift; the stored shifts are left as they were and    *)
(* the clock is not read.                                                  *)
C11_InvalidBreakTypeRejected ==
    [][\A u \in Users, id \in Ids, breakType \in RequestTypes \ BreakTypes :
          (res'.op = "startBreak" /\ StartBreak(u, id, breakType, Deltas))
            => /\ res' = InvalidBreakType
               /\ shifts' = shifts
               /\ now' = now]_vars

(* startBreak has just been rejected for its type while an 'active' shift, *)
(* which a valid type would have put on break, is stored.                  *)
C11_Witness ==
    /\ res = InvalidBreakType
    /\ \E i \in ShiftIds : shifts[i].shiftStatus = "active"

(* C12: a startBreak, endBreak or endShift request that names a            *)
(* 'completed' shift is rejected (endShift with 'Active shift not found')  *)
(* and leaves the stored shifts, so the shift's status, endTime, breaks,   *)
(* totalWorkDuration and totalBreakDuration, unchanged.                    *)
C12_CompletedIsTerminal ==
    [][\A u \in Users, id \in Ids :
          (id \in ShiftIds /\ shifts[id].shiftStatus = "completed")
            => /\ \A breakType \in RequestTypes :
                    (res'.op = "startBreak" /\ StartBreak(u, id, breakType, Deltas))
                      => /\ res' \in {InvalidBreakType, NoActiveShiftOnStartBreak}
                         /\ shifts' = shifts
               /\ (res'.op = "endBreak" /\ EndBreak(u, id, Deltas))
                      => /\ res' = NoShiftOnBreak
                         /\ shifts' = shifts
               /\ (res'.op = "endShift" /\ EndShift(u, id, Deltas))
                      => /\ res' = NoActiveShiftOnEndShift
                         /\ shifts' = shifts]_vars

(* endShift has just been rejected while every stored shift is completed,  *)
(* one of them after a break.                                              *)
C12_Witness ==
    /\ res = NoActiveShiftOnEndShift
    /\ shifts # <<>>
    /\ \A i \in ShiftIds : shifts[i].shiftStatus = "completed"
    /\ \E i \in ShiftIds : shifts[i].breaks # <<>>

(* C13: however startBreak, endBreak and endShift requests on one shift    *)
(* overlap, the stored shift never has an open break before its last       *)
(* break, so never two open breaks, and its totalBreakDuration is the sum  *)
(* of the duration of its closed breaks.                                   *)
C13_ConcurrentBreaksConsistent ==
    \A i \in ShiftIds :
        /\ \A k \in 1..Len(shifts[i].breaks) :
                shifts[i].breaks[k].endTime = Null => k = Len(shifts[i].breaks)
        /\ shifts[i].totalBreakDuration = SumClosed(shifts[i].breaks)

ShiftUpdated == Response("updateShift", 200, "Shift updated successfully")

(* C14: after an administrator's updateShift that leaves the shift with an *)
(* endTime (its startTime is always present), the stored                   *)
(* totalBreakDuration is the sum of the duration of the closed breaks and  *)
(* the stored totalWorkDuration is the minutes from startTime to endTime   *)
(* minus that sum, both taken from the values stored by the update.        *)
C14_AdminUpdateRecomputesTotals ==
    [][\A actor \in Admins, id \in Ids :
          (/\ res' = ShiftUpdated
           /\ UpdateShift(actor, id)
           /\ shifts'[id].endTime # Null)
            => /\ shifts'[id].totalBreakDuration = SumClosed(shifts'[id].breaks)
               /\ shifts'[id].totalWorkDuration =
                     MsToMinutes(shifts'[id].endTime.timestamp
                                   - shifts'[id].startTime.timestamp)
                       - SumClosed(shifts'[id].breaks)]_vars

(* C15: after an administrator's updateShift that supplies a breaks list,  *)
(* only the last break of the stored shift may lack an endTime.            *)
C15_AdminUpdateKeepsBreakStructure ==
    [][\A actor \in Admins, id \in Ids :
          (/\ res' = ShiftUpdated
           /\ UpdateShift(actor, id)
           /\ shifts'[id].breaks \in BreakLists)
            => \A k \in 1..Len(shifts'[id].breaks) :
                  shifts'[id].breaks[k].endTime = Null
                    => k = Len(shifts'[id].breaks)]_vars

(* C16: a startShift, startBreak, endBreak or endShift request that has    *)
(* passed its guard either stores the whole effect of the request or       *)
(* leaves the stored shifts exactly as they were, never a part of the      *)
(* effect; and when it leaves them as they were, as it does when its save  *)
(* fails, it is answered with a server error.                              *)
C16_FailedSaveLeavesNoTrace ==
    [][\A u \in Users, id \in Ids :
          /\ (/\ res'.op = "startShift" /\ res'.msg # "errors"
               /\ OpenShiftsOf(u) = {}
               /\ StartShift(u, Deltas))
                => \/ res' = ServerError("startShift") /\ shifts' = shifts
                   \/ /\ res'.status = 201
                      /\ shifts' = Append(shifts,
                                      NewShift(u, now', now', shifts'[Len(shifts')].startTime.location))
          /\ \A breakType \in BreakTypes :
               (/\ res'.op = "startBreak"
                /\ findOne(shifts, u, id, {"active"}) # 0
                /\ StartBreak(u, id, breakType, Deltas))
                 => \/ res' = ServerError("startBreak") /\ shifts' = shifts
                    \/ /\ res'.status = 200
                       /\ shifts' = [shifts EXCEPT ![id] =
                                       Shift_startBreak(@, breakType, now', "L1")]
          /\ (/\ res'.op = "endBreak"
               /\ findOne(shifts, u, id, {"break"}) # 0
               /\ EndBreak(u, id, Deltas))
                => \/ res' = ServerError("endBreak") /\ shifts' = shifts
                   \/ /\ res'.status \in {200, 500}
                      /\ shifts' = [shifts EXCEPT ![id] = Shift_endBreak(@, now', "L1")]
          /\ (/\ res'.op = "endShift"
               /\ findOne(shifts, u, id, {"active", "break"}) # 0
               /\ EndShift(u, id, Deltas))
                => \/ res' = ServerError("endShift") /\ shifts' = shifts
                   \/ /\ res'.status \in {200, 500}
                      /\ shifts'[id].shiftStatus = "completed"
                      /\ shifts'[id].endTime.timestamp = now'
                      /\ \A k \in 1..Len(shifts'[id].breaks) :
                            shifts'[id].breaks[k].endTime # Null
                      /\ shifts'[id].totalWorkDuration = calculateWorkDuration(shifts'[id])
                      /\ \A j \in ShiftIds \ {id} : shifts'[j] = shifts[j]]_vars

(* The save of an endBreak failed: the request was answered with a server  *)
(* error and the stored shift is still on break with its break open, at    *)
(* a time after the break was started.                                     *)
C16_Witness ==
    /\ res = ServerError("endBreak")
    /\ \E i \in ShiftIds :
            /\ shifts[i].shiftStatus = "break"
            /\ Shift_endBreakOk(shifts[i])
            /\ shifts[i].breaks[Len(shifts[i].breaks)].startTime.timestamp < now

EffectiveStart(s) ==
    LET closed == {k \in 1..Len(s.breaks) : s.breaks[k].endTime # Null}
    IN IF closed = {} THEN s.startTime.timestamp
       ELSE s.breaks[CHOOSE k \in closed : \A j \in closed : j <= k].endTime.timestamp

WholeMinutes(ms) == ms \div MsPerMinute

(* C17: the dashboard of an employee whose shift is on break reports, in   *)
(* whole minutes, work equal to the time from the effective start (the     *)
(* endTime of the previous break if the shift has one, its startTime       *)
(* otherwise) to the start of the last break, and break equal to the time  *)
(* from the start of the last break to now.                                *)
C17_LiveDurationOnBreak ==
    (res.op = "getDashboardData" /\ res.currentStatus = "break")
        => LET s == shifts[res.id]
               lastBreak == s.breaks[Len(s.breaks)]
           IN /\ res.currentDuration =
                    Num(WholeMinutes(lastBreak.startTime.timestamp - EffectiveStart(s)))
              /\ res.currentBreakDuration =
                    Num(WholeMinutes(now - lastBreak.startTime.timestamp))

(* C18: the dashboard of an employee whose shift is 'active' reports, in   *)
(* whole minutes, work equal to the time from the effective start (the     *)
(* endTime of the most recent closed break if the shift has one, its       *)
(* startTime otherwise) to now, and a break of 0.                          *)
C18_LiveDurationActive ==
    (res.op = "getDashboardData" /\ res.currentStatus = "active")
        => /\ res.currentDuration =
                 Num(WholeMinutes(now - EffectiveStart(shifts[res.id])))
           /\ res.currentBreakDuration = Num(0)

(* C19: scenario E. The dashboard of an employee whose shift started 120   *)
(* minutes before now and whose only break started 10 minutes before now   *)
(* and is open reports 110 minutes of work and 10 minutes of break.        *)
C19_ScenarioE ==
    (/\ res.op = "getDashboardData"
     /\ res.id # NoId
     /\ shifts[res.id].startTime.timestamp = now - Minutes(120)
     /\ Len(shifts[res.id].breaks) = 1
     /\ shifts[res.id].breaks[1].endTime = Null
     /\ shifts[res.id].breaks[1].startTime.timestamp = now - Minutes(10))
        => /\ res.currentDuration = Num(110)
           /\ res.currentBreakDuration = Num(10)

ClosedByEndBreak(u, id) ==
    /\ res'.op = "endBreak"
    /\ shifts' # shifts
    /\ EndBreak(u, id, BreakDeltas)

Excess(b) == b.duration - Minutes(MaxDuration(b.type))

(* C20, as stated: when endBreak closes a break, a break-exceeded          *)
(* notification is created if and only if the break's duration is greater  *)
(* than the maximum of its type, and it carries exactly the duration minus *)
(* the maximum.  (The insert of the notification may fail, with a server   *)
(* error as the answer.)                                                   *)
C20_BreakExceededExact ==
    [][\A u \in SoloUsers, id \in Ids :
          ClosedByEndBreak(u, id)
            => LET b == shifts'[id].breaks[Len(shifts'[id].breaks)]
               IN IF Excess(b) > 0
                    THEN \/ /\ res'.status = 200
                            /\ Len(notifications') = Len(notifications) + 1
                            /\ Minutes(notifications'[Len(notifications')].exceededBy)
                                  = Excess(b)
                         \/ res' = ServerError("endBreak") /\ notifications' = notifications
                    ELSE res'.status = 200 /\ notifications' = notifications]_vars

(* C20, amended: when endBreak closes a break, a break-exceeded            *)
(* notification for the employee and the break's type is created if and    *)
(* only if the break's duration is greater than the maximum of its type    *)
(* (60 minutes for 'lunch', 15 for 'short'); it carries the duration minus *)
(* the maximum rounded to the nearest whole minute, halves upwards, which  *)
(* is 0 for an excess under half a minute.  A break of exactly the         *)
(* maximum creates none.  (The insert of the notification may fail, with a *)
(* server error as the answer.)                                            *)
C20_BreakExceededRounded ==
    [][\A u \in SoloUsers, id \in Ids :
          ClosedByEndBreak(u, id)
            => LET b == shifts'[id].breaks[Len(shifts'[id].breaks)]
                   n == notifications'[Len(notifications')]
               IN IF Excess(b) > 0
                    THEN \/ /\ res'.status = 200
                            /\ Len(notifications') = Len(notifications) + 1
                            /\ n.userId = u
                            /\ n.type = "break_exceeded"
                            /\ n.breakType = b.type
                            /\ 2 * (Excess(b) - Minutes(n.exceededBy)) < MsPerMinute
                            /\ 2 * (Minutes(n.exceededBy) - Excess(b)) <= MsPerMinute
                         \/ res' = ServerError("endBreak") /\ notifications' = notifications
                    ELSE res'.status = 200 /\ notifications' = notifications]_vars

(* A 'lunch' break of exactly 60 minutes was closed without a              *)
(* notification, and then a 'short' break of 15.6 minutes with a           *)
(* notification that carries 1.                                            *)
C20_Witness ==
    /\ res = Response("endBreak", 200, "Break ended successfully")
    /\ Len(notifications) = 1
    /\ notifications[1].exceededBy = 1
    /\ \E i \in ShiftIds :
            /\ Len(shifts[i].breaks) = 2
            /\ shifts[i].breaks[1].type = "lunch"
            /\ shifts[i].breaks[1].duration = Minutes(LunchMax)
            /\ shifts[i].breaks[2].type = "short"
            /\ shifts[i].breaks[2].duration = Minutes(ShortMax) + 36000

(* A 'lunch' break of 60.4 minutes was closed with a notification that     *)
(* carries 0.                                                              *)
C20_WitnessZero ==
    /\ res = Response("endBreak", 200, "Break ended successfully")
    /\ Len(notifications) = 1
    /\ notifications[1].exceededBy = 0
    /\ \E i \in ShiftIds :
            /\ Len(shifts[i].breaks) = 1
            /\ shifts[i].breaks[1].type = "lunch"
            /\ shifts[i].breaks[1].duration = Minutes(LunchMax) + 24000

LastBreak(s) == s.breaks[Len(s.breaks)]

BecomesClosed(i) ==
    /\ shifts[i].breaks # <<>>
    /\ LastBreak(shifts[i]).endTime = Null
    /\ Len(shifts'[i].breaks) = Len(shifts[i].breaks)
    /\ LastBreak(shifts'[i]).endTime # Null

(* C21: whenever a break becomes closed with a duration over the maximum   *)
(* of its type, by endBreak or by an endShift on a shift on break, a       *)
(* break-exceeded notification is created in that step.  (The insert of a  *)
(* notification may fail, with a server error as the answer.)              *)
C21_EveryExceededBreakReported ==
    [][\A i \in ShiftIds :
          (BecomesClosed(i) /\ Excess(LastBreak(shifts'[i])) > 0)
            => \/ \E k \in (Len(notifications) + 1)..Len(notifications') :
                      /\ notifications'[k].type = "break_exceeded"
                      /\ notifications'[k].breakType = LastBreak(shifts'[i]).type
               \/ res'.status = 500]_vars


(* C22: getCurrentShift is a pure read: it changes no stored shift and no  *)
(* notification, and what it returned is what a second call made right     *)
(* after it, with no action in between, returns to the same employee.      *)
C22_GetCurrentShiftIsPureRead ==
    [][\A u \in Users :
          (res'.op = "getCurrentShift" /\ GetCurrentShift(u))
            => /\ shifts' = shifts
               /\ notifications' = notifications
               /\ res' = CurrentShift(shifts', u)]_vars

(* The open shift of an employee on break was returned, while a colleague's *)
(* shift is stored too. *)
C22_Witness ==
    /\ res.op = "getCurrentShift"
    /\ res.active
    /\ res.shift.shiftStatus = "break"
    /\ res.shift = shifts[res.id]
    /\ \E i \in ShiftIds : shifts[i].userId # res.shift.userId

StatsOps == {"getDailyStats", "getWeeklyStats", "getMonthlyStats"}

(* The completed shifts of employee u whose date is one of the days W *)
CompletedIn(coll, u, W) ==
    {i \in 1..Len(coll) : /\ coll[i].userId = u
                          /\ coll[i].shiftStatus = "completed"
                          /\ DayOf(coll[i].date) \in W}

(* The Sunday-to-Saturday week and the month of 1970 that hold a day *)
WeekOf(day) ==
    LET sunday == CHOOSE d \in (day - 6)..day : getDay(d) = 0
    IN sunday..(sunday + 6)

MonthOf(day) == {d \in 0..58 : getMonth(d) = getMonth(day)}

(* The response counts and sums exactly the shifts E *)
StatsAre(r, coll, E) ==
    /\ r.shifts = E
    /\ r.totalShifts = Cardinality(E)
    /\ r.totalHours = totalHours(coll, E)
    /\ r.totalBreakMinutes = totalBreakMinutes(coll, E)
    /\ Sum([k \in DOMAIN r.buckets |-> r.buckets[k].shiftsCount],
           DOMAIN r.buckets) = (IF r.buckets = <<>> THEN 0 ELSE Cardinality(E))

(* C23: the daily, weekly and monthly statistics of an employee count and  *)
(* sum only that employee's shifts with status 'completed' whose date lies *)
(* in the requested day, week or month; a shift that is 'active' or on     *)
(* 'break' contributes to no count and to no total.                        *)
C23_StatsCountOnlyCompleted ==
    [][\A u \in Users, day \in QueryDays \cup {DayOf(now)} :
          /\ (res'.op = "getDailyStats" /\ res'.from = day /\ GetDailyStats(u, day))
                => StatsAre(res', shifts, CompletedIn(shifts, u, {day}))
          /\ (res'.op = "getWeeklyStats" /\ day \in res'.from..res'.to
                /\ GetWeeklyStats(u, day))
                => StatsAre(res', shifts, CompletedIn(shifts, u, WeekOf(day)))
          /\ (res'.op = "getMonthlyStats" /\ day \in res'.from..res'.to
                /\ GetMonthlyStats(u, day))
                => StatsAre(res', shifts, CompletedIn(shifts, u, MonthOf(day)))]_vars

(* The month holds a completed shift of the employee and the shift the     *)
(* employee is working on now, and only the first was counted. *)
C23_Witness ==
    /\ res.op = "getMonthlyStats"
    /\ res.totalShifts = 1
    /\ \E i, j \in ShiftIds :
         /\ res.shifts = {i}
         /\ shifts[i].breaks # <<>>
         /\ shifts[j].userId = shifts[i].userId
         /\ shifts[j].shiftStatus = "active"
         /\ getMonth(DayOf(shifts[j].date)) = getMonth(DayOf(shifts[i].date))

(* C24: the total work time the statistics report is the sum of the work   *)
(* durations (elapsed time less break time) of the shifts they count.      *)
C24_StatsTotalIsWorkDuration ==
    [][res'.op \in StatsOps
         => res'.totalHours =
              toFixed2Hours(Sum([i \in res'.shifts |-> shifts'[i].totalWorkDuration],
                                res'.shifts))]_vars

NotAuthorizedToDelete ==
    Response("deleteShift", 403, "Not authorized to delete shifts")

Stored(coll) == {i \in 1..Len(coll) : coll[i] # Removed}

(* C25: a stored shift leaves the store only in a step that is a delete    *)
(* request of an administrator for that shift; a delete request of anyone  *)
(* who is not an administrator is answered 'Not authorized to delete       *)
(* shifts' and leaves every shift as it was.                               *)
C25_OnlyAdminDeleteRemoves ==
    [][/\ \A i \in Stored(shifts) :
             i \notin Stored(shifts') => \E a \in Admins : DeleteShift(a, i)
       /\ \A actor \in Actors \ Admins, id \in Ids :
             (res'.op = "deleteShift" /\ DeleteShift(actor, id))
               => res' = NotAuthorizedToDelete /\ shifts' = shifts]_vars

(* An administrator removed a shift earlier; now a request to delete the   *)
(* shift the employee is working on was refused, and the shift is stored. *)
C25_Witness ==
    /\ res = NotAuthorizedToDelete
    /\ \E i, j \in ShiftIds :
         /\ shifts[i] = Removed
         /\ shifts[j].userId \in Users
         /\ shifts[j].shiftStatus = "break"
         /\ j \in Stored(shifts)

NotesUpdated ==
    Response("updateShiftNotes", 200, "Shift notes updated successfully")

(* C26: a shift that is 'active' or on 'break' has totalWorkDuration 0 in  *)
(* every state, and no step changes the totalWorkDuration, or the status,  *)
(* of a shift that is 'completed': not a startBreak, an endBreak, an       *)
(* endShift or an update of the notes.                                     *)
C26_WorkDurationZeroThenFixed ==
    [][\A i \in 1..Len(shifts') :
          /\ shifts'[i].shiftStatus \in {"active", "break"}
                => shifts'[i].totalWorkDuration = 0
          /\ (i \in ShiftIds /\ shifts[i].shiftStatus = "completed")
                => /\ shifts'[i].totalWorkDuration = shifts[i].totalWorkDuration
                   /\ shifts'[i].shiftStatus = "completed"]_vars

(* The notes of a completed shift with work time were updated while a      *)
(* colleague is at work. *)
C26_Witness ==
    /\ res = NotesUpdated
    /\ \E i, j \in ShiftIds :
         /\ shifts[i].shiftStatus = "completed"
         /\ shifts[i].totalWorkDuration > 0
         /\ shifts[i].notes = "n1"
         /\ shifts[j].shiftStatus = "active"
         /\ shifts[j].totalWorkDuration = 0

(* C27: in every step the totalBreakDuration of every shift stays or       *)
(* grows, and it changes only in a step of endBreak or endShift that       *)
(* closes the shift's open last break, by the duration of that break.      *)
C27_TotalBreakNeverDecreases ==
    [][\A i \in ShiftIds :
          /\ shifts'[i].totalBreakDuration >= shifts[i].totalBreakDuration
          /\ shifts'[i].totalBreakDuration # shifts[i].totalBreakDuration
                => /\ BecomesClosed(i)
                   /\ res'.op \in {"endBreak", "endShift"}
                   /\ shifts'[i].totalBreakDuration =
                        shifts[i].totalBreakDuration
                          + LastBreak(shifts'[i]).duration]_vars

(* A completed shift with a long break closed by endBreak and a shorter    *)
(* one closed by endShift: the total is the sum of the two. *)
C27_Witness ==
    \E i \in ShiftIds :
        /\ shifts[i].shiftStatus = "completed"
        /\ Len(shifts[i].breaks) = 2
        /\ shifts[i].breaks[1].duration > shifts[i].breaks[2].duration
        /\ shifts[i].breaks[2].duration > 0
        /\ shifts[i].breaks[2].endTime.timestamp + 1 = shifts[i].endTime.timestamp
        /\ shifts[i].totalBreakDuration =
             shifts[i].breaks[1].duration + shifts[i].breaks[2].duration

(* C28: updateShiftNotes by the owner of a stored shift is never answered  *)
(* 'Shift not found', whatever the status of the shift: it is answered     *)
(* with success, or with a server error when the save fails; it leaves     *)
(* every field of every shift but the notes of that shift as it was.       *)
C28_NotesUpdateAnyStatus ==
    [][\A u \in Users, id \in Ids :
          (/\ id \in ShiftIds
           /\ shifts[id].userId = u
           /\ res'.op = "updateShiftNotes"
           /\ UpdateShiftNotes(u, id))
            => /\ res' \in {NotesUpdated, ServerError("updateShiftNotes")}
               /\ shifts' = [shifts EXCEPT ![id].notes = shifts'[id].notes]
               /\ res' = ServerError("updateShiftNotes") => shifts' = shifts]_vars

(* The notes of a shift on break were updated. *)
C28_Witness ==
    /\ res = NotesUpdated
    /\ \E i \in ShiftIds :
         /\ shifts[i].shiftStatus = "break"
         /\ shifts[i].notes = "n1"
         /\ LastBreak(shifts[i]).endTime = Null
         /\ shifts[i].endTime = Null

(* C29: an endShift that is saved for a shift on break closes the open     *)
(* last break (endTime, duration, and the duration added to                *)
(* totalBreakDuration) no later than it sets the shift's endTime, and the  *)
(* totalWorkDuration is the elapsed time less the totalBreakDuration that  *)
(* includes that break; the completed shift has no open break.             *)
C29_EndShiftClosesBreakFirst ==
    [][\A u \in SoloUsers, id \in Ids :
          (/\ id \in ShiftIds
           /\ shifts[id].shiftStatus = "break"
           /\ res'.op = "endShift"
           /\ shifts' # shifts
           /\ EndShift(u, id, BreakDeltas))
            => LET s == shifts'[id]
                   b == LastBreak(s)
               IN /\ BecomesClosed(id)
                  /\ b.duration = b.endTime.timestamp - b.startTime.timestamp
                  /\ s.totalBreakDuration =
                        shifts[id].totalBreakDuration + b.duration
                  /\ b.endTime.timestamp <= s.endTime.timestamp
                  /\ s.shiftStatus = "completed"
                  /\ \A k \in 1..Len(s.breaks) : s.breaks[k].endTime # Null
                  /\ s.totalWorkDuration =
                        (s.endTime.timestamp - s.startTime.timestamp)
                          - s.totalBreakDuration]_vars

(* endShift has completed a shift that was on its second break: the break  *)
(* was closed a millisecond before the shift's endTime was taken. *)
C29_Witness ==
    /\ res = Response("endShift", 200, "Shift ended successfully")
    /\ \E i \in ShiftIds :
         /\ shifts[i].shiftStatus = "completed"
         /\ Len(shifts[i].breaks) = 2
         /\ LastBreak(shifts[i]).endTime.timestamp + 1 = shifts[i].endTime.timestamp
         /\ LastBreak(shifts[i]).duration >= Minutes(15)
         /\ shifts[i].totalWorkDuration =
              (shifts[i].endTime.timestamp - shifts[i].startTime.timestamp)
                - SumClosed(shifts[i].breaks)

(* C30: a step of startBreak, endBreak or endShift leaves the userId and   *)
(* the startTime of every shift as they were, keeps every break in its     *)
(* place with its type and startTime, and leaves every break that has an   *)
(* endTime, and every break but the last, untouched; startBreak appends at *)
(* most one break, which is open, and endBreak appends none.               *)
C30_BreaksAppendOnly ==
    [][res'.op \in {"startBreak", "endBreak", "endShift"}
         => \A i \in ShiftIds :
              LET old == shifts[i].breaks
                  new == shifts'[i].breaks
              IN /\ shifts'[i].userId = shifts[i].userId
                 /\ shifts'[i].startTime = shifts[i].startTime
                 /\ Len(new) >= Len(old)
                 /\ \A k \in 1..Len(old) :
                      /\ new[k].type = old[k].type
                      /\ new[k].startTime = old[k].startTime
                      /\ (old[k].endTime # Null \/ k < Len(old)) => new[k] = old[k]
                 /\ Len(new) > Len(old)
                      => /\ res'.op = "startBreak"
                         /\ Len(new) = Len(old) + 1
                         /\ new[Len(new)].endTime = Null
                         /\ \A k \in 1..Len(old) : new[k] = old[k]]_vars

(* startBreak has appended a second, open break behind a closed one. *)
C30_Witness ==
    /\ res = Response("startBreak", 200, "break started successfully")
    /\ \E i \in ShiftIds :
         /\ Len(shifts[i].breaks) = 2
         /\ shifts[i].breaks[1].endTime # Null
         /\ shifts[i].breaks[1].duration = Minutes(60)
         /\ shifts[i].breaks[2].endTime = Null
         /\ shifts[i].breaks[2].startTime.timestamp
              > shifts[i].breaks[1].endTime.timestamp

(* The timestamps recorded in a shift, in the order they were recorded *)
Chronological(s) ==
    /\ \A k \in 1..Len(s.breaks) :
         LET b == s.breaks[k]
         IN /\ s.startTime.timestamp <= b.startTime.timestamp
            /\ b.endTime # Null => b.startTime.timestamp <= b.endTime.timestamp
            /\ k < Len(s.breaks)
                 => /\ b.endTime # Null
                    /\ b.endTime.timestamp <= s.breaks[k + 1].startTime.timestamp
            /\ s.endTime # Null
                 => /\ b.startTime.timestamp <= s.endTime.timestamp
                    /\ b.endTime # Null => b.endTime.timestamp <= s.endTime.timestamp
    /\ s.endTime # Null => s.startTime.timestamp <= s.endTime.timestamp

(* C31: in every shift the recorded timestamps are in chronological order: *)
(* the shift's start is no later than each break's start, a break's start  *)
(* no later than its end, a break's end no later than the next break's     *)
(* start, and no break timestamp is later than the shift's endTime.        *)
C31_TimestampsChronological ==
    \A i \in ShiftIds : Chronological(shifts[i])

(* A shift completed while on its second break, the break closed a         *)
(* millisecond before the shift's endTime. *)
C31_Witness ==
    \E i \in ShiftIds :
        /\ shifts[i].shiftStatus = "completed"
        /\ Len(shifts[i].breaks) = 2
        /\ shifts[i].breaks[1].endTime.timestamp
             < shifts[i].breaks[2].startTime.timestamp
        /\ shifts[i].breaks[2].endTime.timestamp < shifts[i].endTime.timestamp

(* C32: after an updateShift of an administrator that sets an endTime on a *)
(* shift that had none, the status of the shift is 'completed'.            *)
C32_AdminEndTimeCompletes ==
    [][\A a \in Admins, id \in Ids :
          (/\ id \in ShiftIds
           /\ shifts[id].endTime = Null
           /\ res' = ShiftUpdated
           /\ shifts'[id].endTime # Null
           /\ UpdateShift(a, id))
            => shifts'[id].shiftStatus = "completed"]_vars

NotAuthorizedToUpdate ==
    Response("updateShift", 403, "Not authorized to update this shift")

(* C33: an updateShift for a stored shift by someone who is neither its    *)
(* owner nor an administrator is answered 'Not authorized to update this   *)
(* shift' and changes no shift; an updateShift by an owner who is not an   *)
(* administrator changes at most the notes of that shift, whatever         *)
(* startTime, endTime and breaks the request carries.                      *)
C33_UpdateShiftAuthorization ==
    [][\A actor \in Actors \ Admins, id \in Ids :
          (/\ id \in Stored(shifts)
           /\ res'.op = "updateShift"
           /\ UpdateShift(actor, id))
            => IF shifts[id].userId # actor
                 THEN res' = NotAuthorizedToUpdate /\ shifts' = shifts
                 ELSE shifts' = [shifts EXCEPT ![id].notes = shifts'[id].notes]]_vars

(* The owner's updateShift was accepted for a shift on break, which is     *)
(* still on break, without an endTime and with its one open break. *)
C33_Witness ==
    /\ res = ShiftUpdated
    /\ \E i \in Stored(shifts) :
         /\ shifts[i].notes = "n1"
         /\ shifts[i].shiftStatus = "break"
         /\ shifts[i].endTime = Null
         /\ Len(shifts[i].breaks) = 1
         /\ LastBreak(shifts[i]).endTime = Null

(* C34: in every state the status of a shift is 'break' if and only if it  *)
(* has a break and its last break has no endTime.                          *)
C34_BreakStatusIffOpenLastBreak ==
    \A i \in ShiftIds :
        shifts[i].shiftStatus = "break"
          <=> (shifts[i].breaks # <<>> /\ LastBreak(shifts[i]).endTime = Null)

(* A shift back at work after a closed break, next to a completed shift    *)
(* that was ended while on break. *)
C34_Witness ==
    \E i, j \in ShiftIds :
        /\ shifts[i].shiftStatus = "active"
        /\ shifts[i].breaks # <<>>
        /\ LastBreak(shifts[i]).endTime # Null
        /\ shifts[j].shiftStatus = "completed"
        /\ shifts[j].breaks # <<>>
        /\ LastBreak(shifts[j]).endTime.timestamp = shifts[j].endTime.timestamp

NotesShiftNotFound == Response("updateShiftNotes", 404, "Shift not found")

(* The shifts of everyone but u are what they were *)
OthersUnchanged(u) ==
    \A i \in ShiftIds : shifts[i].userId # u => shifts'[i] = shifts[i]

(* A request of employee u that names a stored shift of someone else *)
NamesShiftOfOther(u, id) == id \in ShiftIds /\ shifts[id].userId # u

(* C35 as stated: a startBreak, endBreak, endShift or updateShiftNotes     *)
(* request that names a shift of another employee is rejected as not       *)
(* found.                                                                  *)
C35_ForeignShiftNotFound ==
    [][\A u \in Users, id \in Ids :
          NamesShiftOfOther(u, id)
            => /\ \A breakType \in RequestTypes :
                    (res'.op = "startBreak" /\ StartBreak(u, id, breakType, Deltas))
                      => res' = NoActiveShiftOnStartBreak
               /\ (res'.op = "endBreak" /\ EndBreak(u, id, Deltas))
                      => res' = NoShiftOnBreak
               /\ (res'.op = "endShift" /\ EndShift(u, id, Deltas))
                      => res' = NoActiveShiftOnEndShift
               /\ (res'.op = "updateShiftNotes" /\ UpdateShiftNotes(u, id))
                      => res' = NotesShiftNotFound]_vars

(* C35, amended: such a request is rejected as not found, or, for a        *)
(* startBreak with an unknown break type, as an invalid break type; and no *)
(* request of an employee, whatever shift it names, changes a shift of     *)
(* another employee.                                                       *)
C35_ForeignShiftRejected ==
    [][\A u \in Users :
          /\ StartShift(u, Deltas) => OthersUnchanged(u)
          /\ \A id \in Ids :
               /\ \A breakType \in RequestTypes :
                    (res'.op = "startBreak" /\ StartBreak(u, id, breakType, Deltas))
                      => /\ OthersUnchanged(u)
                         /\ NamesShiftOfOther(u, id)
                              => /\ shifts' = shifts
                                 /\ res' = IF breakType \in BreakTypes
                                             THEN NoActiveShiftOnStartBreak
                                             ELSE InvalidBreakType
               /\ (res'.op = "endBreak" /\ EndBreak(u, id, Deltas))
                      => /\ OthersUnchanged(u)
                         /\ NamesShiftOfOther(u, id)
                              => res' = NoShiftOnBreak /\ shifts' = shifts
               /\ (res'.op = "endShift" /\ EndShift(u, id, Deltas))
                      => /\ OthersUnchanged(u)
                         /\ NamesShiftOfOther(u, id)
                              => res' = NoActiveShiftOnEndShift /\ shifts' = shifts
               /\ (res'.op = "updateShiftNotes" /\ UpdateShiftNotes(u, id))
                      => /\ OthersUnchanged(u)
                         /\ NamesShiftOfOther(u, id)
                              => res' = NotesShiftNotFound /\ shifts' = shifts]_vars

(* An endShift was answered 'Active shift not found' while the only open   *)
(* shift belongs to one employee and the other has none: the request named *)
(* the colleague's shift or none that is open.                             *)
C35_Witness ==
    /\ res = NoActiveShiftOnEndShift
    /\ \E i \in ShiftIds :
         /\ shifts[i].shiftStatus = "break"
         /\ \A j \in ShiftIds : j # i => shifts[j].userId = shifts[i].userId

(* C36: whenever an endBreak or endShift request is answered with a server *)
(* error, the stored shifts are what they were before the request.         *)
C36_ServerErrorLeavesShiftUnchanged ==
    [][res' \in {ServerError("endBreak"), ServerError("endShift")}
         => shifts' = shifts]_vars

(* C37: when endShift requests for one shift overlap, only one of them     *)
(* writes: a request that fetched the shift before it had an endTime and   *)
(* saves after another request has ended it leaves the stored endTime and  *)
(* totalWorkDuration as they are and creates no second shift-completed     *)
(* notification.                                                           *)
C37_ConcurrentEndShiftOnce ==
    [][\A r \in Slots :
          (/\ pending[r].op = "endShift"
           /\ pending[r].fetched.endTime = Null
           /\ shifts[pending[r].id].endTime # Null
           /\ EndShiftSave(r))
            => /\ shifts'[pending[r].id].endTime = shifts[pending[r].id].endTime
               /\ shifts'[pending[r].id].totalWorkDuration
                    = shifts[pending[r].id].totalWorkDuration
               /\ notifications' = notifications]_vars

(* C38: the duration of every closed break is at least 0, and so is the    *)
(* totalWorkDuration of every shift.                                       *)
C38_DurationsNonNegative ==
    \A i \in ShiftIds :
        /\ shifts[i].totalWorkDuration >= 0
        /\ \A k \in 1..Len(shifts[i].breaks) :
             shifts[i].breaks[k].endTime # Null => shifts[i].breaks[k].duration >= 0

(* A completed shift that was on break for all but its first and its last  *)
(* millisecond. *)
C38_Witness ==
    \E i \in ShiftIds :
        /\ shifts[i].shiftStatus = "completed"
        /\ Len(shifts[i].breaks) = 1
        /\ shifts[i].breaks[1].startTime.timestamp = shifts[i].startTime.timestamp + 1
        /\ shifts[i].breaks[1].endTime.timestamp + 1 = shifts[i].endTime.timestamp
        /\ shifts[i].breaks[1].duration > 0
        /\ shifts[i].totalWorkDuration = 2

OpenShift(u, id) ==
    /\ id \in ShiftIds
    /\ shifts[id].userId = u
    /\ shifts[id].shiftStatus \in {"active", "break"}

(* C39: in every state where an employee's shift is 'active' or on 'break' *)
(* an endShift of that employee for that shift that completes it can be    *)
(* taken; an endShift for such a shift is never answered 'not found' and,  *)
(* unless the save fails, completes the shift in that step; and every      *)
(* started shift is eventually 'completed'.                                *)
C39_ShiftCanAlwaysFinish ==
    /\ [](\A u \in SoloUsers, id \in Ids :
            OpenShift(u, id) => ENABLED EndShiftCompletes(u, id))
    /\ [][\A u \in SoloUsers, id \in Ids :
            (OpenShift(u, id) /\ res'.op = "endShift" /\ EndShift(u, id, Deltas))
              => \/ shifts'[id].shiftStatus = "completed"
                 \/ res' = ServerError("endShift") /\ shifts' = shifts]_vars
    /\ \A u \in SoloUsers, id \in Ids :
            OpenShift(u, id)
              ~> (id \in ShiftIds /\ shifts[id].shiftStatus = "completed")

(* A shift on break at the last clock reading was completed by an endShift *)
(* handled after it. *)
C39_Witness ==
    /\ now > MaxClock
    /\ res = Response("endShift", 200, "Shift ended successfully")
    /\ \E i \in ShiftIds :
         /\ shifts[i].shiftStatus = "completed"
         /\ shifts[i].breaks # <<>>
         /\ LastBreak(shifts[i]).startTime.timestamp = MaxClock

====
